---------------------------- MODULE Spec2Model ----------------------------
(***************************************************************************)
(* A model of the real-time core of Intan_EMG_Python:                      *)
(*   - RingBuffer (utilities/messaging_utilities.py): append, get_samples, *)
(*     is_full, with the numpy view/copy behaviour of the returned block;  *)
(*   - process_emg_pipeline (utilities/emg_processing.py) applied to a     *)
(*     block read from the buffer;                                         *)
(*   - PicoMessager.update_gesture / send_message / close_connection, the  *)
(*     majority-vote decision smoother;                                    *)
(*   - sliding_window and the window loop of extract_wavelet_features.     *)
(* Arrays are 0-indexed functions, as in the source; sequences returned    *)
(* to a caller are 1-indexed TLA+ sequences.                               *)
(***************************************************************************)
EXTENDS Integers, Sequences, FiniteSets, TLC

VARIABLES
    \* ---- RingBuffer ----
    max,            \* self.max: capacity
    samples,        \* self.samples: [0..max-1 -> row]
    timestamp,      \* self.timestamp: [0..max-1 -> number]
    cur,            \* self.cur: write cursor
    size,           \* self.size: fill count
    num_channels,   \* second dimension of self.samples
    log,            \* history: every (t, x) handed to append, oldest first
    block,          \* what the last successful get_samples handed to the reader
    ringOp,         \* the last RingBuffer / pipeline call and its outcome
    \* ---- PicoMessager (decision smoother) ----
    buffer_size,    \* maxlen of self.buffer
    buffer,         \* self.buffer: deque of labels, oldest first
    current_gesture,\* self.current_gesture: <<>> is None, <<g>> is g
    serial_open,    \* self.serial_connection is present and open
    sent,           \* every send_message(message) call, oldest first
    wire,           \* every string written to the serial connection
    observed,       \* history: every label handed to update_gesture
    smOp,           \* the last PicoMessager call and its outcome
    \* ---- windowing ----
    w_fn,           \* which function runs: sliding_window or extract_wavelet_features
    num_samples,    \* number of samples of the block
    window_size,
    w_arg,          \* the third argument: step_size, or overlap
    step,           \* step_size, or window_size - overlap, once the call has it
    start,          \* the loop variable of range(0, num_samples - window_size + 1, step)
    windows,        \* the windows appended so far
    w_pc            \* "call", "loop", "done" (returned), "error" (raised)

ringVars == <<max, samples, timestamp, cur, size, num_channels, log, block, ringOp>>
smVars   == <<buffer_size, buffer, current_gesture, serial_open, sent, wire,
              observed, smOp>>
winVars  == <<w_fn, num_samples, window_size, w_arg, step, start, windows, w_pc>>
vars     == <<ringVars, smVars, winVars>>

-----------------------------------------------------------------------------
(* Bounds of the model.                                                    *)
MaxCapacity == 3    \* RingBuffer capacities 1..MaxCapacity
MaxAppends  == 6    \* appends per behaviour
MaxSample   == 2    \* sample rows are drawn from 1..MaxSample
MaxRate     == 5    \* sampling rates 0..MaxRate
MaxCutoff   == 2    \* filter cutoffs 0..MaxCutoff
MaxHistory  == 3    \* PicoMessager buffer_size 0..MaxHistory
MaxObserved == 5    \* update_gesture calls per behaviour
MaxBlock    == 6    \* blocks of 1..MaxBlock samples
MaxWindow   == 8    \* window sizes 1..MaxWindow
MaxStep     == 3    \* steps -MaxStep..MaxStep

Min(a, b) == IF a < b THEN a ELSE b
Max(a, b) == IF a > b THEN a ELSE b

-----------------------------------------------------------------------------
(* numpy helpers                                                           *)

\* The largest magnitude up to which every integer is a float32.
F32Exact == 16777216

RECURSIVE F32Ulp(_)
F32Ulp(a) == IF a < F32Exact THEN 1 ELSE 2 * F32Ulp(a \div 2)

\* Storing a number into an array of dtype float32: round to the nearest
\* float32, ties to even (integers only; no overflow to infinity here).
ToFloat32(v) ==
    LET a == IF v < 0 THEN -v ELSE v
        u == F32Ulp(a)
        q == a \div u
        r == a % u
        m == IF 2 * r < u THEN q * u
             ELSE IF 2 * r > u THEN (q + 1) * u
             ELSE IF q % 2 = 0 THEN q * u ELSE (q + 1) * u
    IN  IF v < 0 THEN -m ELSE m

\* arr[lo:hi] for an array of length len, as a sequence (Python slice
\* semantics: negative indices count from the end, then both are clipped).
PyIndex(i, len) == IF i < 0 THEN Max(i + len, 0) ELSE Min(i, len)

PySlice(arr, len, lo, hi) ==
    LET a == PyIndex(lo, len)
        b == PyIndex(hi, len)
    IN  [i \in 1..Max(b - a, 0) |-> arr[a + i - 1]]

-----------------------------------------------------------------------------
(* RingBuffer                                                              *)

SampleValues == 1..MaxSample

NoBlock == [kind |-> "none", lo |-> 0, hi |-> 0, rows |-> <<>>, ts |-> <<>>]

\* RingBuffer.__init__
RingInit ==
    /\ max \in 1..MaxCapacity
    /\ samples = [i \in 0..(max - 1) |-> 0]
    /\ timestamp = [i \in 0..(max - 1) |-> 0]
    /\ cur = 0
    /\ size = 0
    /\ log = <<>>
    /\ block = NoBlock
    /\ ringOp = [name |-> "init", n |-> 0, ok |-> TRUE]

\* The timestamp of the next sample: the acquisition clock counts samples.
NextTime == Len(log) + 1

\* RingBuffer.append(t, x)
append(t, x) ==
    /\ Len(log) < MaxAppends
    /\ samples' = [samples EXCEPT ![cur] = ToFloat32(x)]
    /\ timestamp' = [timestamp EXCEPT ![cur] = ToFloat32(t)]
    /\ cur' = (cur + 1) % max
    /\ size' = Min(size + 1, max)
    /\ log' = Append(log, <<t, x>>)
    /\ ringOp' = [name |-> "append", n |-> 0, ok |-> TRUE]
    /\ UNCHANGED <<max, num_channels, block>>

\* get_samples: the guard that raises ValueError
InsufficientDataOffByOne(n, sz) == n >= sz
InsufficientData(n, sz) == n > sz

\* get_samples: end_idx
EndIdxFillCount(c, sz, m) == sz
EndIdx(c, sz, m) == IF sz = m THEN c ELSE sz

\* get_samples: start_idx
StartIdx(e, n, m) == (e - n) % m

\* get_samples: the value returned. A basic slice of a numpy array is a view
\* of the backing array; np.vstack / np.hstack build new arrays.
GetSamplesResult(n) ==
    LET e == EndIdx(cur, size, max)
        s == StartIdx(e, n, max)
    IN  IF s < e
        THEN [kind |-> "view", lo |-> s, hi |-> e, rows |-> <<>>, ts |-> <<>>]
        ELSE [kind |-> "copy", lo |-> 0, hi |-> 0,
              rows |-> PySlice(samples, max, s, max) \o PySlice(samples, max, 0, e),
              ts   |-> PySlice(timestamp, max, s, max) \o PySlice(timestamp, max, 0, e)]

\* RingBuffer.get_samples(n)
get_samples(n) ==
    /\ IF InsufficientData(n, size)
       THEN /\ ringOp' = [name |-> "get_samples", n |-> n, ok |-> FALSE]
            /\ UNCHANGED block
       ELSE /\ ringOp' = [name |-> "get_samples", n |-> n, ok |-> TRUE]
            /\ block' = GetSamplesResult(n)
    /\ UNCHANGED <<max, samples, timestamp, cur, size, num_channels, log>>

\* RingBuffer.is_full
is_full == size = max

\* What the reader sees in the block it holds, now.
BlockRows == IF block.kind = "view"
             THEN PySlice(samples, max, block.lo, block.hi)
             ELSE block.rows
BlockTimes == IF block.kind = "view"
              THEN PySlice(timestamp, max, block.lo, block.hi)
              ELSE block.ts

-----------------------------------------------------------------------------
(* process_emg_pipeline on a block read from the buffer. The block handed  *)
(* in as data['amplifier_data'] is the reader's block, laid out            *)
(* (channels, samples): the transpose of what get_samples returned, which  *)
(* numpy gives as a view of the same memory.                               *)

\* order=5, the default of process_emg_pipeline
FilterOrder == 5
\* filtfilt's default padlen, 3 * max(len(a), len(b)), for a band-pass of
\* that order (2 * order + 1 coefficients)
PadLen == 3 * (2 * FilterOrder + 1)

ChannelCounts == {PadLen, PadLen + 1}

\* butter_bandpass: nyq = 0.5 * fs; low = lowcut / nyq; high = highcut / nyq;
\* butter raises unless 0 < low < high < 1 (and the division raises at fs = 0).
butter_bandpass_ok(lowcut, highcut, fs) ==
    /\ fs # 0
    /\ 0 < 2 * lowcut  /\ 2 * lowcut  < fs
    /\ 0 < 2 * highcut /\ 2 * highcut < fs
    /\ lowcut < highcut

\* filter_emg -> butter_bandpass_filter(emg_data, ...) with its default
\* axis=0: filtfilt runs along the first axis of the (channels, samples)
\* block and raises unless that axis is longer than padlen.
filter_emg_ok(lowcut, highcut, fs) ==
    /\ butter_bandpass_ok(lowcut, highcut, fs)
    /\ num_channels > PadLen

\* emg_data[:, -sample_rate:] = 0.0 : the first sample index that is zeroed
\* in a block of n samples
ZeroFrom(fs, n) == PyIndex(-fs, n)

\* process_emg_pipeline(data, lowcut, highcut) with sample_rate fs
process_emg_pipeline(lowcut, highcut, fs) ==
    /\ block.kind # "none"
    /\ LET n  == Len(BlockRows)
           z  == ZeroFrom(fs, n)
       IN  IF block.kind = "view"
           THEN /\ samples' = [i \in 0..(max - 1) |->
                                 IF block.lo + z <= i /\ i < block.hi
                                 THEN 0 ELSE samples[i]]
                /\ UNCHANGED block
           ELSE /\ block' = [block EXCEPT !.rows =
                                 [i \in 1..n |-> IF i > z THEN 0 ELSE block.rows[i]]]
                /\ UNCHANGED samples
    /\ ringOp' = [name |-> "process_emg_pipeline", n |-> fs,
                  ok |-> filter_emg_ok(lowcut, highcut, fs)]
    /\ UNCHANGED <<max, timestamp, cur, size, num_channels, log>>

-----------------------------------------------------------------------------
(* PicoMessager: the decision smoother.                                    *)

\* Gesture labels handed to update_gesture (new_gesture: str); "" is the one
\* string Python takes as false.
Labels == {"", "Fist", "Rest"}

\* Python truthiness of a str label
Truthy(g) == g # ""

NoCall == [name |-> "init", label |-> "", mode |-> <<>>, prev |-> <<>>,
           sends |-> FALSE]

\* PicoMessager.__init__; serial.Serial(...) may raise, which leaves
\* serial_connection = None
SmootherInit ==
    /\ buffer_size \in 0..MaxHistory
    /\ buffer = <<>>
    /\ current_gesture = <<>>
    /\ serial_open \in BOOLEAN
    /\ sent = <<>>
    /\ wire = <<>>
    /\ observed = <<>>
    /\ smOp = NoCall

\* collections.deque(maxlen=cap).append(g)
DequeAppend(buf, cap, g) ==
    IF cap = 0 THEN <<>>
    ELSE IF Len(buf) = cap THEN Append(Tail(buf), g)
    ELSE Append(buf, g)

\* Counter(buf)[g]
Count(buf, g) == Cardinality({i \in 1..Len(buf) : buf[i] = g})

\* The position at which g enters Counter(buf): its first occurrence
FirstIndex(buf, g) == CHOOSE i \in 1..Len(buf) :
                         /\ buf[i] = g
                         /\ \A j \in 1..(i - 1) : buf[j] # g

\* A variant of mode that resolves a tie to the label whose first occurrence
\* is latest.
ModeLatest(buf) ==
    IF Len(buf) = 0 THEN <<>>
    ELSE LET range == {buf[i] : i \in 1..Len(buf)}
         IN  << CHOOSE g \in range : \A h \in range :
                   \/ Count(buf, h) < Count(buf, g)
                   \/ /\ Count(buf, h) = Count(buf, g)
                      /\ FirstIndex(buf, g) >= FirstIndex(buf, h) >>

\* statistics.mode(buf) (Python 3.8 and later): Counter(buf).most_common(1),
\* the first label, in order of first occurrence, with the largest count;
\* StatisticsError on empty data, which update_gesture turns into None (<<>>).
Mode(buf) ==
    IF Len(buf) = 0 THEN <<>>
    ELSE LET range == {buf[i] : i \in 1..Len(buf)}
         IN  << CHOOSE g \in range : \A h \in range :
                   \/ Count(buf, h) < Count(buf, g)
                   \/ /\ Count(buf, h) = Count(buf, g)
                      /\ FirstIndex(buf, g) <= FirstIndex(buf, h) >>

\* update_gesture: "if most_common_gesture and most_common_gesture !=
\* self.current_gesture"
ShouldSendEveryTime(m, current) == m # <<>> /\ Truthy(m[1])
ShouldSend(m, current) == m # <<>> /\ Truthy(m[1]) /\ m # current

\* send_message: f"{message};"
FormatMessage(message) == message \o ";"

\* PicoMessager.send_message(message); written says whether
\* serial_connection.write returned (it may raise SerialException, which is
\* caught and printed).
send_message(message, written) ==
    /\ sent' = Append(sent, message)
    /\ wire' = IF serial_open /\ written
               THEN Append(wire, FormatMessage(message))
               ELSE wire

\* PicoMessager.update_gesture(new_gesture)
update_gesture(new_gesture, written) ==
    /\ Len(observed) < MaxObserved
    /\ observed' = Append(observed, new_gesture)
    /\ buffer' = DequeAppend(buffer, buffer_size, new_gesture)
    /\ LET most_common_gesture == Mode(buffer')
       IN  /\ IF ShouldSend(most_common_gesture, current_gesture)
              THEN /\ current_gesture' = most_common_gesture
                   /\ send_message(most_common_gesture[1], written)
              ELSE /\ UNCHANGED <<current_gesture, sent, wire>>
           /\ smOp' = [name |-> "update_gesture", label |-> new_gesture,
                       mode |-> most_common_gesture, prev |-> current_gesture,
                       sends |-> ShouldSend(most_common_gesture, current_gesture)]
    /\ UNCHANGED <<buffer_size, serial_open>>

\* PicoMessager.close_connection
close_connection ==
    /\ serial_open
    /\ serial_open' = FALSE
    /\ smOp' = [NoCall EXCEPT !.name = "close_connection"]
    /\ UNCHANGED <<buffer_size, buffer, current_gesture, sent, wire, observed>>

-----------------------------------------------------------------------------
(* Windowing: sliding_window(data, window_size, step_size) and the window  *)
(* loop of extract_wavelet_features(emg_data, window_size, overlap). A     *)
(* block is the array of its sample positions 0..num_samples-1 (a window   *)
(* takes every channel of the samples it covers), so a window is the       *)
(* sequence of the sample positions it holds. The feature row              *)
(* extract_wavelet_features computes from a window is stood for by that    *)
(* window.                                                                 *)

WINDOW_SIZE == 400
OVERLAP == 200

\* The 1000-sample block of two and a half default windows
ExampleBlock == 2 * WINDOW_SIZE + OVERLAP

\* The block: data[j] is sample position j.
Data == [j \in 0..(num_samples - 1) |-> j]

\* The calls a behaviour may make: <<function, num_samples, window_size,
\* third argument>>.
WindowCalls ==
    ({"sliding_window"} \X (1..MaxBlock) \X (1..MaxWindow) \X ((-MaxStep)..MaxStep))
    \cup {<<"extract_wavelet_features", n, w, w - s>> :
             n \in 1..MaxBlock, w \in 1..MaxWindow, s \in (-MaxStep)..MaxStep}
    \cup {<<"sliding_window", ExampleBlock, WINDOW_SIZE, WINDOW_SIZE - OVERLAP>>,
          <<"extract_wavelet_features", ExampleBlock, WINDOW_SIZE, OVERLAP>>}

WindowInit ==
    /\ \E c \in WindowCalls :
          /\ w_fn = c[1]
          /\ num_samples = c[2]
          /\ window_size = c[3]
          /\ w_arg = c[4]
    /\ step = 0
    /\ start = 0
    /\ windows = <<>>
    /\ w_pc = "call"

\* The step the call works with: step_size, or window_size - overlap
\* (extract_wavelet_features, line 22).
StepOf == IF w_fn = "sliding_window" THEN w_arg ELSE window_size - w_arg

\* range(0, num_samples - window_size + 1, step): the stop value
RangeStopShort == num_samples - window_size
RangeStop == num_samples - window_size + 1

\* range(0, stop, st) still yields the value i
RangeHas(i, stop, st) == IF st > 0 THEN i < stop ELSE i > stop

\* Entering the function up to the creation of the range object, which
\* raises ValueError for a step of zero.
EnterLoop(fn) ==
    /\ w_pc = "call"
    /\ w_fn = fn
    /\ step' = StepOf
    /\ start' = 0
    /\ windows' = <<>>
    /\ w_pc' = IF StepOf = 0 THEN "error" ELSE "loop"
    /\ UNCHANGED <<w_fn, num_samples, window_size, w_arg>>

\* One iteration of the for loop: slice the window and append it.
LoopBody(fn) ==
    /\ w_pc = "loop"
    /\ w_fn = fn
    /\ RangeHas(start, RangeStop, step)
    /\ windows' = Append(windows,
                         PySlice(Data, num_samples, start, start + window_size))
    /\ start' = start + step
    /\ UNCHANGED <<w_fn, num_samples, window_size, w_arg, step, w_pc>>

\* The range is exhausted: return what was collected.
LoopReturn(fn) ==
    /\ w_pc = "loop"
    /\ w_fn = fn
    /\ ~RangeHas(start, RangeStop, step)
    /\ w_pc' = "done"
    /\ UNCHANGED <<w_fn, num_samples, window_size, w_arg, step, start, windows>>

\* sliding_window
sliding_window_call   == EnterLoop("sliding_window")
sliding_window_window == LoopBody("sliding_window")
sliding_window_return == LoopReturn("sliding_window")

\* extract_wavelet_features
extract_wavelet_features_call   == EnterLoop("extract_wavelet_features")
extract_wavelet_features_window == LoopBody("extract_wavelet_features")
extract_wavelet_features_return == LoopReturn("extract_wavelet_features")

-----------------------------------------------------------------------------
(* The other components at rest.                                           *)

SmootherIdle ==
    /\ buffer_size = 0
    /\ buffer = <<>>
    /\ current_gesture = <<>>
    /\ serial_open = FALSE
    /\ sent = <<>>
    /\ wire = <<>>
    /\ observed = <<>>
    /\ smOp = NoCall

WindowIdle ==
    /\ w_fn = "none"
    /\ num_samples = 0
    /\ window_size = 0
    /\ w_arg = 0
    /\ step = 0
    /\ start = 0
    /\ windows = <<>>
    /\ w_pc = "idle"

RingIdle ==
    /\ max = 1
    /\ samples = [i \in 0..0 |-> 0]
    /\ timestamp = [i \in 0..0 |-> 0]
    /\ cur = 0
    /\ size = 0
    /\ num_channels = 1
    /\ log = <<>>
    /\ block = NoBlock
    /\ ringOp = [name |-> "init", n |-> 0, ok |-> TRUE]

-----------------------------------------------------------------------------
(* SpecRing: one writer appending, one reader calling get_samples.         *)

InitRing ==
    /\ RingInit
    /\ num_channels \in ChannelCounts
    /\ SmootherIdle
    /\ WindowIdle

RingAppend ==
    /\ \E x \in SampleValues : append(NextTime, x)
    /\ UNCHANGED <<smVars, winVars>>

RingGetSamples ==
    /\ \E n \in 0..(max + 1) : get_samples(n)
    /\ UNCHANGED <<smVars, winVars>>

NextRing == RingAppend \/ RingGetSamples

SpecRing == InitRing /\ [][NextRing]_vars

(* SpecPipeline: the reader also conditions the block it read.             *)

RingCondition ==
    /\ \E lowcut \in 0..MaxCutoff, highcut \in 0..MaxCutoff, fs \in 0..MaxRate :
          process_emg_pipeline(lowcut, highcut, fs)
    /\ UNCHANGED <<smVars, winVars>>

NextPipeline == RingAppend \/ RingGetSamples \/ RingCondition

SpecPipeline == InitRing /\ [][NextPipeline]_vars

-----------------------------------------------------------------------------
(* Properties of the RingBuffer.                                           *)

\* The x (k = 2) or t (k = 1) of the n most recent appends, oldest first.
LastAppended(n, k) == [i \in 1..n |-> log[Len(log) - n + i][k]]

\* C1: after L >= 1 appends to a buffer of capacity C, for every n with
\* 1 <= n <= min(L, C), get_samples(n) succeeds and returns the n most
\* recently appended samples and their timestamps, oldest first, also when
\* the cursor has wrapped and the requested range crosses the end of the
\* backing arrays.
C1_GetLastChronological ==
    (/\ ringOp.name = "get_samples"
     /\ 1 <= ringOp.n
     /\ ringOp.n <= Min(Len(log), max))
    => /\ ringOp.ok
       /\ BlockRows = LastAppended(ringOp.n, 2)
       /\ BlockTimes = LastAppended(ringOp.n, 1)

\* C1 witness: the cursor has wrapped more than once and the read range
\* crosses the end of the backing arrays (a tail segment and a head segment).
C1_Witness ==
    /\ ringOp.name = "get_samples"
    /\ ringOp.ok
    /\ Len(log) > 2 * max
    /\ 0 < cur
    /\ cur < ringOp.n
    /\ block.kind = "copy"
    /\ BlockRows = LastAppended(ringOp.n, 2)

\* C2: get_samples(n) raises exactly when n > min(L, C), and a call that
\* raises leaves samples, timestamps, cursor and fill count as they were.
C2_InsufficientData ==
    /\ [](ringOp.name = "get_samples"
            => (ringOp.ok <=> ringOp.n <= Min(Len(log), max)))
    /\ [][(ringOp'.name = "get_samples" /\ ~ringOp'.ok)
            => UNCHANGED <<samples, timestamp, cur, size, max>>]_vars

\* C2 witness: a read that raises while the buffer is still filling, for an n
\* within the capacity.
C2_Witness ==
    /\ ringOp.name = "get_samples"
    /\ ~ringOp.ok
    /\ 1 <= size
    /\ size < max
    /\ ringOp.n <= max
    /\ size = Len(log)

\* C11: in every buffer state and for every n with 0 <= n <= fill count, a
\* successful get_samples(n) returns exactly n samples and exactly n
\* timestamps; get_samples(0) returns an empty result.
C11_ResultLength ==
    (/\ ringOp.name = "get_samples"
     /\ ringOp.ok
     /\ 0 <= ringOp.n
     /\ ringOp.n <= size)
    => /\ Len(BlockRows) = ringOp.n
       /\ Len(BlockTimes) = ringOp.n

\* C10: no append after a read changes a value of the block that read
\* handed to the reader.
C10_ReadIsSnapshot ==
    [][(ringOp'.name = "append" /\ block.kind # "none")
         => (BlockRows' = BlockRows /\ BlockTimes' = BlockTimes)]_vars

\* C9: process_emg_pipeline leaves every sample of its input block, and of
\* the RingBuffer storage the block was read from, unchanged, whether it
\* returns or raises.
C9_ConditioningPure ==
    [][ringOp'.name = "process_emg_pipeline"
         => (BlockRows' = BlockRows /\ samples' = samples)]_vars

-----------------------------------------------------------------------------
(* SpecSmoother: a stream of labels observed by one PicoMessager.          *)

InitSmoother ==
    /\ SmootherInit
    /\ RingIdle
    /\ WindowIdle

SmootherObserve ==
    /\ \E g \in Labels, written \in BOOLEAN : update_gesture(g, written)
    /\ UNCHANGED <<ringVars, winVars>>

SmootherClose ==
    /\ close_connection
    /\ UNCHANGED <<ringVars, winVars>>

NextSmoother == SmootherObserve \/ SmootherClose

SpecSmoother == InitSmoother /\ [][NextSmoother]_vars

-----------------------------------------------------------------------------
(* Properties of the decision smoother.                                    *)

\* g is a most frequent label of buf and, among the most frequent ones, the
\* one that appears earliest.
EarliestMostFrequent(buf, g) ==
    /\ Count(buf, g) >= 1
    /\ \A i \in 1..Len(buf) :
          \/ Count(buf, buf[i]) < Count(buf, g)
          \/ /\ Count(buf, buf[i]) = Count(buf, g)
             /\ FirstIndex(buf, g) <= i

\* C3: for any label and any prior state, update_gesture appends the label to
\* the history (evicting the oldest entry at capacity), takes the most
\* frequent label of the history, ties going to the earliest one, and sets
\* active-gesture to it and emits exactly one event carrying it if and only
\* if it differs from the current active-gesture; otherwise active-gesture
\* and the events stay as they were. A stream [A, A, B, A, A] with capacity 3
\* gives exactly one event, to A, and ends with active-gesture = A.
C3_ObserveEmitsOnModeChange ==
    /\ [][smOp'.name = "update_gesture" /\ observed' # observed =>
          LET h == DequeAppend(buffer, buffer_size, smOp'.label)
          IN  /\ buffer' = h
              /\ \A g \in Labels : EarliestMostFrequent(h, g) =>
                    IF <<g>> # current_gesture
                    THEN /\ current_gesture' = <<g>>
                         /\ sent' = Append(sent, g)
                    ELSE /\ current_gesture' = current_gesture
                         /\ sent' = sent]_vars
    /\ [](\A a \in Labels, b \in Labels :
            (a # b /\ buffer_size = 3 /\ observed = <<a, a, b, a, a>>)
               => (sent = <<a>> /\ current_gesture = <<a>>))

\* C4 as stated: with capacity 2, fed [A, B] with A # B from a fresh state,
\* no gesture-change event is produced and active-gesture remains unset.
C4_TieProducesNoEvent ==
    (/\ buffer_size = 2
     /\ Len(observed) = 2
     /\ observed[1] # observed[2])
    => (sent = <<>> /\ current_gesture = <<>>)

\* C4 amended: with capacity 2, fed [A, B] with A # B from a fresh state, the
\* first observation (whose mode is A) sets active-gesture to A and emits one
\* event carrying A, and the second observation, a tie resolved to A, emits
\* nothing: exactly one event, active-gesture = A. Only when A is the empty
\* label, which update_gesture takes as "no mode", is there no event and
\* active-gesture stays unset.
C4_TieKeepsFirstGesture ==
    (/\ buffer_size = 2
     /\ Len(observed) = 2
     /\ observed[1] # observed[2])
    => IF observed[1] # ""
       THEN sent = <<observed[1]>> /\ current_gesture = <<observed[1]>>
       ELSE sent = <<>> /\ current_gesture = <<>>

\* C4 witness: [A, B] was fed to a smoother of capacity 2 and the one event,
\* to A, went out on the wire.
C4_Witness ==
    /\ buffer_size = 2
    /\ observed = <<"Fist", "Rest">>
    /\ buffer = <<"Fist", "Rest">>
    /\ sent = <<"Fist">>
    /\ wire = <<"Fist;">>
    /\ current_gesture = <<"Fist">>

\* C5 as stated: whenever update_gesture changes active-gesture and emits an
\* event, the new label occurs in the history strictly more often than every
\* other label.
C5_AcceptedLabelDominates ==
    (smOp.name = "update_gesture" /\ smOp.sends)
    => \A g \in Labels :
          <<g>> # smOp.mode => Count(buffer, g) < Count(buffer, smOp.mode[1])

\* C5 amended: whenever update_gesture changes active-gesture and emits an
\* event, the new label occurs in the history at least as often as every
\* other label, and every other label with the same count first appears
\* later in the history: a label that only ties for most frequent is
\* accepted when it is the earliest of the tied labels.
C5_AcceptedLabelLeads ==
    (smOp.name = "update_gesture" /\ smOp.sends)
    => /\ smOp.mode # <<>>
       /\ smOp.mode # smOp.prev
       /\ current_gesture = smOp.mode
       /\ sent[Len(sent)] = smOp.mode[1]
       /\ Count(buffer, smOp.mode[1]) >= 1
       /\ \A g \in Labels \ {smOp.mode[1]} :
             \/ Count(buffer, g) < Count(buffer, smOp.mode[1])
             \/ /\ Count(buffer, g) = Count(buffer, smOp.mode[1])
                /\ FirstIndex(buffer, smOp.mode[1]) < FirstIndex(buffer, g)

\* C5 witness: a label that only ties for most frequent was accepted.
C5_Witness ==
    /\ smOp.name = "update_gesture"
    /\ smOp.sends
    /\ smOp.prev # <<>>
    /\ current_gesture = smOp.mode
    /\ \E g \in Labels \ {smOp.mode[1]} :
          Count(buffer, g) = Count(buffer, smOp.mode[1])

-----------------------------------------------------------------------------
(* SpecWindow: one call of sliding_window or extract_wavelet_features.     *)

InitWindow ==
    /\ WindowInit
    /\ RingIdle
    /\ SmootherIdle

SlidingWindowCall ==
    sliding_window_call /\ UNCHANGED <<ringVars, smVars>>
SlidingWindowWindow ==
    sliding_window_window /\ UNCHANGED <<ringVars, smVars>>
SlidingWindowReturn ==
    sliding_window_return /\ UNCHANGED <<ringVars, smVars>>
ExtractCall ==
    extract_wavelet_features_call /\ UNCHANGED <<ringVars, smVars>>
ExtractWindow ==
    extract_wavelet_features_window /\ UNCHANGED <<ringVars, smVars>>
ExtractReturn ==
    extract_wavelet_features_return /\ UNCHANGED <<ringVars, smVars>>

NextWindow ==
    \/ SlidingWindowCall
    \/ SlidingWindowWindow
    \/ SlidingWindowReturn
    \/ ExtractCall
    \/ ExtractWindow
    \/ ExtractReturn

SpecWindow == InitWindow /\ [][NextWindow]_vars

-----------------------------------------------------------------------------
(* Properties of the windowing.                                            *)

\* C6: for N samples, window size W <= N and step S >= 1 the call returns
\* exactly (N - W) \div S + 1 windows, the k-th (from 0) being the samples
\* [k*S, k*S + W), in increasing start order, each of width W, with no
\* partial window for a trailing remainder; for N = 1000, W = 400, S = 200
\* the starts are 0, 200, 400, 600.
C6_WindowsExact ==
    (w_pc = "done" /\ window_size <= num_samples /\ step >= 1)
    => /\ Len(windows) = (num_samples - window_size) \div step + 1
       /\ \A k \in 0..(Len(windows) - 1) :
             windows[k + 1] = [i \in 1..window_size |-> k * step + i - 1]
       /\ (num_samples = 1000 /\ window_size = 400 /\ step = 200)
             => [k \in 1..Len(windows) |-> windows[k][1]] = <<0, 200, 400, 600>>

\* C6 witness: the 1000-sample block was cut by sliding_window into its four
\* windows of 400.
C6_Witness ==
    /\ w_pc = "done"
    /\ w_fn = "sliding_window"
    /\ num_samples = 1000
    /\ window_size = 400
    /\ step = 200
    /\ Len(windows) = 4
    /\ Len(windows[4]) = 400
    /\ windows[4][1] = 600

\* C7: a call whose step is below 1 is rejected with an error before any
\* window is produced: it never produces a window and never returns.
C7_StepBelowOneRejected ==
    (StepOf < 1) => (w_pc # "done" /\ windows = <<>>)

\* C8: a call whose window size exceeds the number of samples of the block
\* fails with an error: it never returns a result, empty or otherwise.
C8_WindowLargerThanBlockFails ==
    (window_size > num_samples) => (w_pc # "done")

=============================================================================
